---- MODULE Spec2Model ----
(***************************************************************************)
(* Model of src/src/repositories.rs: the in-memory Todo repository         *)
(* (TodoRepositoryForMemory), a HashMap<i32, Todo> behind Arc<RwLock<..>>. *)
(*                                                                         *)
(* Spec      one caller, each repository method one atomic action          *)
(* ConcSpec  several callers; a method is lock acquisition, the steps of   *)
(*           its body under the lock, and the return that drops the guard  *)
(***************************************************************************)
EXTENDS Integers, Sequences, FiniteSets, TLC

\* ---------------------------------------------------------------- bounds
\* create is offered only while fewer than MaxItems items are stored
MaxItems == 3

\* the callers (threads, each with its clone of the handle) of ConcSpec
NCallers == 2
Callers == 1..NCallers

\* the handle slots of CloneSpec
NHandles == 3

\* in ConcSpec create is called only while the stored items and the
\* creates in flight are together fewer than MaxConcItems
MaxConcItems == 2
ConcIds == 1..(MaxConcItems + 1)

\* the texts callers pass (the two literals of tests::todo_crud_scenario)
Texts == {"todo  text", "update todo text"}
Bools == {TRUE, FALSE}
\* the ids callers pass to find/update/delete: every id create can hand out
\* under the bound, and one more that is never stored
Ids == 1..(MaxItems + 1)

\* ------------------------------------------------------- values and types
\* Option<T>
None == [some |-> FALSE]
Some(v) == [some |-> TRUE, val |-> v]
unwrap_or(opt, default) == IF opt.some THEN opt.val ELSE default

\* RepositoryError::NotFound(i32)
NotFound(id) == [kind |-> "NotFound", id |-> id]
\* anyhow::Result<T>
Ok(v) == [ok |-> TRUE, val |-> v]
Err(e) == [ok |-> FALSE, err |-> e]
\* the unit value () that delete returns on success
Unit == [unit |-> TRUE]
\* Option::context(err): Some(v) -> Ok(v), None -> Err(err)
context(opt, e) == IF opt.some THEN Ok(opt.val) ELSE Err(e)

\* struct CreateTodo / struct UpdateTodo
CreateTodo == [text : Texts]
UpdateTodo == [text : {None} \cup {Some(t) : t \in Texts},
               completed : {None} \cup {Some(b) : b \in Bools}]

\* `as i32` on a usize: wraps modulo 2^32 into -2^31 .. 2^31-1
I32Max == 2147483647
AsI32(n) == IF n <= I32Max THEN n ELSE n - I32Max - I32Max - 2

\* Todo::new with the wrong default for completed
TodoNewCompleted(id, text) == [id |-> id, text |-> text, completed |-> TRUE]

\* Todo::new that leaves the id at i32's default
TodoNewDefaultId(id, text) == [id |-> 0, text |-> text, completed |-> FALSE]

\* Todo::new
TodoNew(id, text) == [id |-> id, text |-> text, completed |-> FALSE]

\* ------------------------------------------------- HashMap<i32, Todo>
\* TodoDates: a function from the stored keys to their Todo
EmptyStore == [k \in {} |-> TodoNew(0, "")]
len(s) == Cardinality(DOMAIN s)
get(s, k) == IF k \in DOMAIN s THEN Some(s[k]) ELSE None
insert(s, k, v) == [x \in DOMAIN s \cup {k} |-> IF x = k THEN v ELSE s[x]]
\* remove that reports the entry but leaves it in the map
removeKeeps(s, k) == s

remove(s, k) == [x \in DOMAIN s \ {k} |-> s[x]]
\* values(): the stored Todos, in an order the map chooses; every order is
\* a possible one
Range(q) == {q[i] : i \in 1..Len(q)}
KeyOrders(s) == {q \in [1..len(s) -> DOMAIN s] : Range(q) = DOMAIN s}
\* values() that misses the first entry of the iteration
valuesSkipFirst(s, order) ==
    IF len(s) = 0 THEN <<>> ELSE [i \in 1..(len(s) - 1) |-> s[order[i + 1]]]

values(s, order) == [i \in 1..len(s) |-> s[order[i]]]

\* ------------------------------------------ impl TodoRepository, bodies
\* Each body maps the store it finds to the store it leaves and the value
\* it returns.
\* an id one above the largest key of the map
NextIdAboveKeys(s) ==
    AsI32((CHOOSE m \in DOMAIN s \cup {0} :
              \A k \in DOMAIN s : k <= m) + 1)

NextId(s) == AsI32(len(s) + 1)

create(s, payload) ==
    LET id == NextId(s)
        todo == TodoNew(id, payload.text)
    IN  [store |-> insert(s, id, todo), ret |-> todo]

\* a find that reports a missing id as an error, as update does
findOrNotFound(s, id) ==
    [store |-> s, ret |-> context(get(s, id), NotFound(id))]

find(s, id) == [store |-> s, ret |-> get(s, id)]

\* a result that hands out the map's own entries instead of copies
borrowed(keys) == keys

\* .cloned(): the result is a copy and refers to no entry of the map
cloned(keys) == {}

all(s, order) == [store |-> s, ret |-> [items |-> values(s, order)]]

\* a PUT-style update: an absent completed resets to the default
PatchResetsCompleted(todo, id, payload) ==
    [id |-> id,
     text |-> unwrap_or(payload.text, todo.text),
     completed |-> unwrap_or(payload.completed, FALSE)]

\* the record update builds from the current Todo and the payload
Patch(todo, id, payload) ==
    [id |-> id,
     text |-> unwrap_or(payload.text, todo.text),
     completed |-> unwrap_or(payload.completed, todo.completed)]

\* an update that inserts when the id is missing (upsert)
updateUpsert(s, id, payload) ==
    LET todo == Patch(unwrap_or(get(s, id), TodoNew(id, "")), id, payload)
    IN  [store |-> insert(s, id, todo), ret |-> Ok(todo)]

update(s, id, payload) ==
    LET found == context(get(s, id), NotFound(id))
    IN  IF ~found.ok
        THEN [store |-> s, ret |-> found]
        ELSE LET todo == Patch(found.val, id, payload)
             IN  [store |-> insert(s, id, todo), ret |-> Ok(todo)]

\* a delete that clears the map (store.clear())
deleteClears(s, id) ==
    LET removed == context(get(s, id), NotFound(id))
    IN  IF ~removed.ok
        THEN [store |-> s, ret |-> removed]
        ELSE [store |-> EmptyStore, ret |-> Ok(Unit)]

delete(s, id) ==
    LET removed == context(get(s, id), NotFound(id))
    IN  IF ~removed.ok
        THEN [store |-> s, ret |-> removed]
        ELSE [store |-> remove(s, id), ret |-> Ok(Unit)]

\* ------------------------------------------------------------------ state
VARIABLES
    store,      \* the HashMap inside the RwLock
    last,       \* the call that completed last: method, arguments, result
    issued,     \* every id a create has returned so far
    created,    \* one Todo per create call, as later updates left it;
                \* kept while no delete has succeeded
    deletes,    \* "none", "failed" (only failing delete calls), "succeeded"
    borrows,    \* the keys of the map whose entries the value returned
                \* last still refers to
    rwlock,     \* the RwLock: the callers holding a write guard, a read guard
    pc,         \* per caller: "idle", "called" (waiting for the lock),
                \* "locked", "stepped" (inside the body), "done" (result
                \* computed, guard not yet dropped)
    frame,      \* per caller: the call's method, arguments, locals, result
    lin,        \* the store of the one-at-a-time execution that runs each
                \* call whole at the moment it gets the lock
    heap,       \* the allocations Arc<RwLock<TodoDates>>, by address
    handles,    \* per handle slot: whether a TodoRepositoryForMemory value
                \* lives there, and the address its field store points to
    writer      \* the last create, update or delete: the handle it went
                \* through, and the map its body left

hist == <<last, issued, created, deletes, borrows>>
conc == <<rwlock, pc, frame, lin>>
arcs == <<heap, handles, writer>>
vars == <<store, last, issued, created, deletes, borrows, rwlock, pc, frame, lin,
          heap, handles, writer>>

NoPayload == [absent |-> TRUE]
NoRet == [absent |-> TRUE]
NoLocal == [absent |-> TRUE]
NoFrame == [op |-> "none", id |-> 0, payload |-> NoPayload,
            local |-> NoLocal, ret |-> NoRet, expect |-> NoRet]
Unlocked == [writers |-> {}, readers |-> {}]

\* the handle slots: slot 1 holds the value new() returned, the others
\* take its clones
Handles == 1..NHandles
NoHandle == [live |-> FALSE, store |-> 0]
Handle(ptr) == [live |-> TRUE, store |-> ptr]
Via(h, op, left) == [h |-> h, op |-> op, left |-> left]

\* how a call relates to the one before it: it is given the id that the
\* preceding create returned, or the id the preceding delete removed
After(id) ==
    CASE last.op = "create" /\ last.ret.id = id -> "create"
      [] last.op = "delete" /\ last.ret.ok /\ last.id = id -> "delete"
      [] OTHER -> "other"

Call(op, id, payload, ret, after) ==
    [op |-> op, id |-> id, payload |-> payload, ret |-> ret, after |-> after]

\* TodoRepositoryForMemory::new
Init ==
    /\ store = EmptyStore
    /\ last = Call("new", 0, NoPayload, NoRet, "other")
    /\ issued = {}
    /\ created = <<>>
    /\ deletes = "none"
    /\ borrows = {}
    /\ rwlock = Unlocked
    /\ pc = [c \in Callers |-> "idle"]
    /\ frame = [c \in Callers |-> NoFrame]
    /\ lin = EmptyStore
    /\ heap = <<EmptyStore>>
    /\ handles = [h \in Handles |-> IF h = 1 THEN Handle(1) ELSE NoHandle]
    /\ writer = Via(0, "none", EmptyStore)

\* created, after an update returned todo
Updated(todo) ==
    [i \in 1..Len(created) |->
        IF created[i].id = todo.id THEN todo ELSE created[i]]

Create(payload) ==
    /\ len(store) < MaxItems
    /\ LET r == create(store, payload)
       IN  /\ store' = r.store
           /\ last' = Call("create", 0, payload, r.ret, "other")
           /\ issued' = issued \cup {r.ret.id}
           /\ created' = IF deletes = "succeeded" THEN created
                         ELSE Append(created, r.ret)
    /\ borrows' = {}
    /\ UNCHANGED <<deletes, conc, arcs>>

Find(id) ==
    /\ LET r == find(store, id)
       IN  /\ store' = r.store
           /\ last' = Call("find", id, NoPayload, r.ret, After(id))
    /\ borrows' = cloned(DOMAIN store \cap {id})
    /\ UNCHANGED <<issued, created, deletes, conc, arcs>>

All ==
    /\ \E order \in KeyOrders(store) :
         LET r == all(store, order)
         IN  /\ store' = r.store
             /\ last' = Call("all", 0, NoPayload, r.ret, "other")
    /\ borrows' = cloned(DOMAIN store)
    /\ UNCHANGED <<issued, created, deletes, conc, arcs>>

Update(id, payload) ==
    /\ LET r == update(store, id, payload)
       IN  /\ store' = r.store
           /\ last' = Call("update", id, payload, r.ret, After(id))
           /\ created' = IF r.ret.ok /\ deletes # "succeeded"
                         THEN Updated(r.ret.val) ELSE created
    /\ borrows' = {}
    /\ UNCHANGED <<issued, deletes, conc, arcs>>

Delete(id) ==
    /\ LET r == delete(store, id)
       IN  /\ store' = r.store
           /\ last' = Call("delete", id, NoPayload, r.ret, After(id))
           /\ deletes' = IF r.ret.ok THEN "succeeded"
                         ELSE IF deletes = "none" THEN "failed" ELSE deletes
           /\ created' = IF r.ret.ok THEN <<>> ELSE created
    /\ borrows' = {}
    /\ UNCHANGED <<issued, conc, arcs>>

\* the Todos the caller holds from the find or all that returned last: the
\* one find returned, the first of the Vec all returned
Held ==
    CASE last.op = "find" /\ last.ret.some -> {last.ret.val}
      [] last.op = "all" /\ Len(last.ret.items) > 0 -> {last.ret.items[1]}
      [] OTHER -> {}

\* the caller changes the text and completed of a Todo it was returned;
\* the entry of the map changes with it only if the value refers to it
ChangeReturned ==
    /\ \E old \in Held, t \in Texts, b \in Bools :
         LET new == [id |-> old.id, text |-> t, completed |-> b]
         IN  /\ new # old
             /\ store' = [k \in DOMAIN store |->
                            IF k \in borrows /\ k = old.id
                            THEN new ELSE store[k]]
             /\ last' = Call("change", old.id, NoPayload, Some(new), "other")
    /\ borrows' = {}
    /\ UNCHANGED <<issued, created, deletes, conc, arcs>>

Next ==
    \/ \E payload \in CreateTodo : Create(payload)
    \/ \E id \in Ids : Find(id)
    \/ All
    \/ \E id \in Ids, payload \in UpdateTodo : Update(id, payload)
    \/ \E id \in Ids : Delete(id)
    \/ ChangeReturned

Spec == Init /\ [][Next]_vars

\* ------------------------------------------------- concurrent callers
WriteOps == {"create", "update", "delete"}
ReadOps == {"find", "all"}

\* RwLock::read that does not wait for a writer
CanReadAlways(l) == TRUE

\* RwLock::read returns once no write guard is out
CanRead(l) == l.writers = {}

\* RwLock::write that waits for the readers only
CanWriteAmongWriters(l) == l.readers = {}

\* RwLock::write returns once no guard at all is out
CanWrite(l) == l.writers = {} /\ l.readers = {}

\* a caller is inside the store from the moment it holds its guard until
\* the guard is dropped at the end of the method
Inside(c) == pc[c] \in {"locked", "stepped", "done"}
Writing(c) == Inside(c) /\ frame[c].op \in WriteOps
Reading(c) == Inside(c) /\ frame[c].op \in ReadOps

\* what the call of frame f, run whole on store s, returns and leaves
Atomic(f, s) ==
    CASE f.op = "create" -> create(s, f.payload)
      [] f.op = "find" -> find(s, f.id)
      [] f.op = "all" -> all(s, CHOOSE q \in KeyOrders(s) : TRUE)
      [] f.op = "update" -> update(s, f.id, f.payload)
      [] f.op = "delete" -> delete(s, f.id)

Frame(op, id, payload) ==
    [op |-> op, id |-> id, payload |-> payload,
     local |-> NoLocal, ret |-> NoRet, expect |-> NoRet]

\* the calls of one method, with every argument a caller may pass
Calls(op) ==
    CASE op = "create" -> {Frame(op, 0, p) : p \in CreateTodo}
      [] op = "update" -> {Frame(op, id, p) : id \in ConcIds, p \in UpdateTodo}
      [] op \in {"find", "delete"} -> {Frame(op, id, NoPayload) : id \in ConcIds}
      [] op = "all" -> {Frame(op, 0, NoPayload)}

\* the creates that have been called and have not returned
CreatesInFlight == {c \in Callers : frame[c].op = "create"}

\* a caller enters a method; the first thing every method does is ask for
\* the lock. The arguments are the caller's own values and nothing reads
\* them before the body runs, so they are drawn when the lock is granted.
Invoke(c, op) ==
    /\ pc[c] = "idle"
    /\ op = "create" =>
          len(store) + Cardinality(CreatesInFlight) < MaxConcItems
    /\ pc' = [pc EXCEPT ![c] = "called"]
    /\ frame' = [frame EXCEPT ![c] = Frame(op, 0, NoPayload)]
    /\ UNCHANGED <<store, hist, rwlock, lin, arcs>>

\* write_store_ref: self.store.write().unwrap()
write_store_ref(c) ==
    /\ pc[c] = "called"
    /\ frame[c].op \in WriteOps
    /\ CanWrite(rwlock)
    /\ rwlock' = [rwlock EXCEPT !.writers = @ \cup {c}]
    /\ pc' = [pc EXCEPT ![c] = "locked"]
    /\ \E f \in Calls(frame[c].op) :
         /\ frame' = [frame EXCEPT ![c] =
                        [f EXCEPT !.expect = Atomic(f, lin).ret]]
         /\ lin' = Atomic(f, lin).store
    /\ UNCHANGED <<store, hist, arcs>>

\* read_store_ref: self.store.read().unwrap()
read_store_ref(c) ==
    /\ pc[c] = "called"
    /\ frame[c].op \in ReadOps
    /\ CanRead(rwlock)
    /\ rwlock' = [rwlock EXCEPT !.readers = @ \cup {c}]
    /\ pc' = [pc EXCEPT ![c] = "locked"]
    /\ \E f \in Calls(frame[c].op) :
         frame' = [frame EXCEPT ![c] =
                     [f EXCEPT !.expect = Atomic(f, lin).ret]]
    /\ UNCHANGED <<store, hist, lin, arcs>>

\* create, line 78: let id = (store.len() + 1) as i32
CreateLen(c) ==
    /\ pc[c] = "locked"
    /\ frame[c].op = "create"
    /\ frame' = [frame EXCEPT ![c].local = [id |-> NextId(store)]]
    /\ pc' = [pc EXCEPT ![c] = "stepped"]
    /\ UNCHANGED <<store, hist, rwlock, lin, arcs>>

\* create, lines 79-82: Todo::new, store.insert, the Todo is the result
CreateInsert(c) ==
    /\ pc[c] = "stepped"
    /\ frame[c].op = "create"
    /\ LET id == frame[c].local.id
           todo == TodoNew(id, frame[c].payload.text)
       IN  /\ store' = insert(store, id, todo)
           /\ frame' = [frame EXCEPT ![c].ret = todo]
    /\ pc' = [pc EXCEPT ![c] = "done"]
    /\ UNCHANGED <<hist, rwlock, lin, arcs>>

\* find, line 88: store.get(&id).cloned()
FindGet(c) ==
    /\ pc[c] = "locked"
    /\ frame[c].op = "find"
    /\ frame' = [frame EXCEPT ![c].ret = get(store, frame[c].id)]
    /\ pc' = [pc EXCEPT ![c] = "done"]
    /\ UNCHANGED <<store, hist, rwlock, lin, arcs>>

\* all, line 94: store.values().cloned().collect(), in the map's order
AllCollect(c) ==
    /\ pc[c] = "locked"
    /\ frame[c].op = "all"
    /\ \E order \in KeyOrders(store) :
         frame' = [frame EXCEPT ![c].ret = [items |-> values(store, order)]]
    /\ pc' = [pc EXCEPT ![c] = "done"]
    /\ UNCHANGED <<store, hist, rwlock, lin, arcs>>

\* an update that reads under a guard it drops before it writes
UpdateGetDropsGuard(c) ==
    /\ pc[c] = "locked"
    /\ frame[c].op = "update"
    /\ LET found == context(get(store, frame[c].id), NotFound(frame[c].id))
       IN  IF found.ok
           THEN /\ frame' = [frame EXCEPT ![c].local = [todo |-> found.val]]
                /\ pc' = [pc EXCEPT ![c] = "stepped"]
           ELSE /\ frame' = [frame EXCEPT ![c].ret = found]
                /\ pc' = [pc EXCEPT ![c] = "done"]
    /\ rwlock' = [rwlock EXCEPT !.writers = @ \ {c}]
    /\ UNCHANGED <<store, hist, lin, arcs>>

\* update, line 100: store.get(&id).context(NotFound(id))?
UpdateGet(c) ==
    /\ pc[c] = "locked"
    /\ frame[c].op = "update"
    /\ LET found == context(get(store, frame[c].id), NotFound(frame[c].id))
       IN  IF found.ok
           THEN /\ frame' = [frame EXCEPT ![c].local = [todo |-> found.val]]
                /\ pc' = [pc EXCEPT ![c] = "stepped"]
           ELSE /\ frame' = [frame EXCEPT ![c].ret = found]
                /\ pc' = [pc EXCEPT ![c] = "done"]
    /\ UNCHANGED <<store, hist, rwlock, lin, arcs>>

\* update, lines 101-108: build the Todo, store.insert, Ok(todo)
UpdateInsert(c) ==
    /\ pc[c] = "stepped"
    /\ frame[c].op = "update"
    /\ LET todo == Patch(frame[c].local.todo, frame[c].id, frame[c].payload)
       IN  /\ store' = insert(store, frame[c].id, todo)
           /\ frame' = [frame EXCEPT ![c].ret = Ok(todo)]
    /\ pc' = [pc EXCEPT ![c] = "done"]
    /\ UNCHANGED <<hist, rwlock, lin, arcs>>

\* delete, lines 113-115: store.remove(&id).context(NotFound(id))?; Ok(())
DeleteRemove(c) ==
    /\ pc[c] = "locked"
    /\ frame[c].op = "delete"
    /\ LET r == delete(store, frame[c].id)
       IN  /\ store' = r.store
           /\ frame' = [frame EXCEPT ![c].ret = r.ret]
    /\ pc' = [pc EXCEPT ![c] = "done"]
    /\ UNCHANGED <<hist, rwlock, lin, arcs>>

\* a return that leaks the guard (mem::forget): the lock stays taken
ReturnLeaksGuard(c) ==
    /\ pc[c] = "done"
    /\ pc' = [pc EXCEPT ![c] = "idle"]
    /\ frame' = [frame EXCEPT ![c] = NoFrame]
    /\ UNCHANGED <<store, hist, rwlock, lin, arcs>>

\* the method returns: the guard goes out of scope and releases the lock
Return(c) ==
    /\ pc[c] = "done"
    /\ rwlock' = [writers |-> rwlock.writers \ {c},
                  readers |-> rwlock.readers \ {c}]
    /\ pc' = [pc EXCEPT ![c] = "idle"]
    /\ frame' = [frame EXCEPT ![c] = NoFrame]
    /\ UNCHANGED <<store, hist, lin, arcs>>

CNext ==
    \E c \in Callers :
        \/ \E op \in WriteOps \cup ReadOps : Invoke(c, op)
        \/ write_store_ref(c)
        \/ read_store_ref(c)
        \/ CreateLen(c)
        \/ CreateInsert(c)
        \/ FindGet(c)
        \/ AllCollect(c)
        \/ UpdateGet(c)
        \/ UpdateInsert(c)
        \/ DeleteRemove(c)
        \/ Return(c)

ConcSpec == Init /\ [][CNext]_vars

\* the behaviours in which no delete succeeds: every call of every method,
\* a delete only where it returns NotFound
NoDeleteNext ==
    \E c \in Callers :
        \/ \E op \in WriteOps \cup ReadOps : Invoke(c, op)
        \/ write_store_ref(c)
        \/ read_store_ref(c)
        \/ CreateLen(c)
        \/ CreateInsert(c)
        \/ FindGet(c)
        \/ AllCollect(c)
        \/ UpdateGet(c)
        \/ UpdateInsert(c)
        \/ DeleteRemove(c) /\ ~frame'[c].ret.ok
        \/ Return(c)

NoDeleteSpec == Init /\ [][NoDeleteNext]_vars

\* the steps of caller c that wait for nothing: its body under the lock and
\* its return
Body(c) ==
    \/ CreateLen(c)
    \/ CreateInsert(c)
    \/ FindGet(c)
    \/ AllCollect(c)
    \/ UpdateGet(c)
    \/ UpdateInsert(c)
    \/ DeleteRemove(c)
    \/ Return(c)

\* lock acquisition, the one step that can wait
Acquire(c) == write_store_ref(c) \/ read_store_ref(c)

Holders == rwlock.writers \cup rwlock.readers

\* A thread that can run does run. The lock is scheduled fairly: a caller
\* waits for it forever only if some guard is held forever (std's RwLock
\* leaves the order of admission open, so this is all that is assumed).
Fairness ==
    /\ \A c \in Callers : WF_vars(Body(c))
    /\ \A c \in Callers :
         \/ []<>(pc[c] # "called")
         \/ \E d \in Callers : <>[](d \in Holders)

FairSpec == Init /\ [][CNext]_vars /\ Fairness

\* ------------------------------------------ two updates in a race
\* Two callers have each entered update on a repository that holds items,
\* and neither has the lock yet; each call runs once and its caller keeps
\* what it passed and what it was returned.
Racers == {c \in Callers : c <= 2}

\* the maps a repository holds after creates and updates: keys 1..n, every
\* item under its own id
RaceStores ==
    UNION {[1..n -> [id : 1..n, text : Texts, completed : Bools]] :
              n \in 1..MaxConcItems}

RaceInit ==
    /\ store \in {s \in RaceStores : \A k \in DOMAIN s : s[k].id = k}
    /\ lin = store
    /\ last = Call("new", 0, NoPayload, NoRet, "other")
    /\ issued = {}
    /\ created = <<>>
    /\ deletes = "none"
    /\ borrows = {}
    /\ rwlock = Unlocked
    /\ pc = [c \in Callers |-> IF c \in Racers THEN "called" ELSE "idle"]
    /\ frame = [c \in Callers |->
                  IF c \in Racers THEN Frame("update", 0, NoPayload)
                  ELSE NoFrame]
    /\ heap = <<EmptyStore>>
    /\ handles = [h \in Handles |-> IF h = 1 THEN Handle(1) ELSE NoHandle]
    /\ writer = Via(0, "none", EmptyStore)

\* update returns: the guard is released and the caller has the result
ReturnKept(c) ==
    /\ pc[c] = "done"
    /\ rwlock' = [writers |-> rwlock.writers \ {c},
                  readers |-> rwlock.readers \ {c}]
    /\ pc' = [pc EXCEPT ![c] = "returned"]
    /\ UNCHANGED <<store, hist, frame, lin, arcs>>

RNext ==
    \E c \in Racers :
        \/ write_store_ref(c)
        \/ UpdateGet(c)
        \/ UpdateInsert(c)
        \/ ReturnKept(c)

RaceSpec == RaceInit /\ [][RNext]_vars

\* ------------------------------------------------------ cloned handles
\* a Clone that copies the map into an allocation of its own
cloneDeep(hp, self) ==
    [heap |-> Append(hp, hp[self.store]), handle |-> Handle(Len(hp) + 1)]

\* #[derive(Clone)] on TodoRepositoryForMemory: Arc::clone of the field
\* store, which copies the address and allocates nothing
clone(hp, self) == [heap |-> hp, handle |-> Handle(self.store)]

\* the map a handle reaches through its Arc
View(h) == heap[handles[h].store]

\* the store a method called through handle h leaves in h's allocation
Through(h, s) == [heap EXCEPT ![handles[h].store] = s]

Clone(h, g) ==
    /\ handles[h].live
    /\ ~handles[g].live
    /\ LET r == clone(heap, handles[h])
       IN  /\ heap' = r.heap
           /\ handles' = [handles EXCEPT ![g] = r.handle]
    /\ UNCHANGED <<store, hist, conc, writer>>

CreateVia(h, payload) ==
    /\ handles[h].live
    /\ len(View(h)) < MaxItems
    /\ LET r == create(View(h), payload)
       IN  /\ heap' = Through(h, r.store)
           /\ writer' = Via(h, "create", r.store)
    /\ UNCHANGED <<store, hist, conc, handles>>

UpdateVia(h, id, payload) ==
    /\ handles[h].live
    /\ LET r == update(View(h), id, payload)
       IN  /\ heap' = Through(h, r.store)
           /\ writer' = Via(h, "update", r.store)
    /\ UNCHANGED <<store, hist, conc, handles>>

DeleteVia(h, id) ==
    /\ handles[h].live
    /\ LET r == delete(View(h), id)
       IN  /\ heap' = Through(h, r.store)
           /\ writer' = Via(h, "delete", r.store)
    /\ UNCHANGED <<store, hist, conc, handles>>

HNext ==
    \/ \E h, g \in Handles : Clone(h, g)
    \/ \E h \in Handles, payload \in CreateTodo : CreateVia(h, payload)
    \/ \E h \in Handles, id \in Ids, payload \in UpdateTodo :
         UpdateVia(h, id, payload)
    \/ \E h \in Handles, id \in Ids : DeleteVia(h, id)

CloneSpec == Init /\ [][HNext]_vars

\* ---------------------------------------------------------------- claims
\* C1: in every reachable store and for every text t, create({text: t})
\* returns a Todo with text t and completed false, and a find with the
\* returned id issued right after it returns Some of an equal Todo.
C1_CreateThenFind ==
    [][ /\ \A p \in CreateTodo :
             Create(p) => /\ last'.ret.text = p.text
                          /\ last'.ret.completed = FALSE
        /\ \A id \in Ids :
             (last.op = "create" /\ id = last.ret.id /\ Find(id))
                => last'.ret = Some(last.ret) ]_vars

\* a find that directly follows a create, with the id the create returned
C1_Witness ==
    /\ last.op = "find"
    /\ last.after = "create"
    /\ last.ret.some
    /\ len(store) > 1

\* C2: an id returned by one create call is never returned by a later create
\* call, also after the item with that id has been deleted.
C2_IdNeverReused ==
    [][ \A p \in CreateTodo : Create(p) => last'.ret.id \notin issued ]_vars

\* C3: the id of the Todo create returns differs from the id of every item
\* that is in the store when create is called.
C3_CreateIdFresh ==
    [][ \A p \in CreateTodo :
          Create(p) => \A k \in DOMAIN store : store[k].id # last'.ret.id ]_vars

\* C4: create leaves every item that was already stored present with the
\* same id, text and completed, and the number of stored items grows by one.
C4_CreateKeepsStored ==
    [][ \A p \in CreateTodo :
          Create(p) => /\ \A k \in DOMAIN store :
                            k \in DOMAIN store' /\ store'[k] = store[k]
                       /\ len(store') = len(store) + 1 ]_vars

\* C5: update(id, payload) on a present id stores and returns the Todo with
\* the same id, text = payload.text if present else the prior text, and
\* completed = payload.completed if present else the prior completed.
C5_Expected(id, payload) ==
    [id |-> store[id].id,
     text |-> IF payload.text = None THEN store[id].text
              ELSE payload.text.val,
     completed |-> IF payload.completed = None THEN store[id].completed
                   ELSE payload.completed.val]

C5_UpdatePatches ==
    [][ (/\ last'.op = "update"
         /\ Update(last'.id, last'.payload)
         /\ last'.id \in DOMAIN store)
            => /\ last'.ret = Ok(C5_Expected(last'.id, last'.payload))
               /\ last'.id \in DOMAIN store'
               /\ store'[last'.id] = C5_Expected(last'.id, last'.payload) ]_vars

\* a text-only update has kept completed = TRUE, which is not the default
C5_Witness ==
    /\ last.op = "update"
    /\ last.ret.ok
    /\ last.payload.text.some
    /\ ~last.payload.completed.some
    /\ last.ret.val.completed
    /\ store[last.id] = last.ret.val

\* C6: update and delete with an id that is not in the store fail with
\* NotFound carrying exactly that id and leave the store as it was.
C6_MissingIdFails ==
    [][ (/\ last'.id \notin DOMAIN store
         /\ \/ last'.op = "update" /\ Update(last'.id, last'.payload)
            \/ last'.op = "delete" /\ Delete(last'.id))
            => /\ last'.ret = Err(NotFound(last'.id))
               /\ store' = store ]_vars

\* an update of a missing id has failed on a store that holds other items
C6_Witness ==
    /\ last.op = "update"
    /\ ~last.ret.ok
    /\ last.ret.err.id = last.id
    /\ len(store) > 0

\* C7: delete(id) succeeds exactly when id is stored; directly after a
\* successful delete(id), find(id) returns None and delete(id) fails with
\* NotFound(id).
C7_DeleteRemoves ==
    [][ \A id \in Ids :
          /\ Delete(id) => (last'.ret.ok <=> id \in DOMAIN store)
          /\ (last.op = "delete" /\ last.ret.ok /\ last.id = id) =>
               /\ Find(id) => last'.ret = None
               /\ Delete(id) => last'.ret = Err(NotFound(id)) ]_vars

\* a second delete of the id that the call before it deleted
C7_Witness ==
    /\ last.op = "delete"
    /\ last.after = "delete"
    /\ ~last.ret.ok
    /\ len(store) > 0

\* C8: on a fresh store, after N creates and no delete call, all() returns
\* exactly N items, and as a set they are the Todos the N creates returned,
\* as later updates left them.
C8_AllReturnsCreated ==
    (last.op = "all" /\ deletes = "none") =>
        /\ Len(last.ret.items) = Len(created)
        /\ Range(last.ret.items) = Range(created)
        /\ Cardinality(Range(created)) = Len(created)

\* all() after two creates and an update in between
C8_Witness ==
    /\ last.op = "all"
    /\ deletes = "none"
    /\ Len(created) = 2
    /\ \E i \in 1..Len(created) : created[i].completed

\* C9: reader/writer exclusion: while a create, update or delete is inside
\* the store no other call is inside it; find and all may be inside it
\* together, and only when no create, update or delete is.
C9_Exclusion ==
    \A c, d \in Callers : (c # d /\ Writing(c)) => ~Inside(d)

\* two read calls are inside the store at the same time
C9_Witness ==
    \E c, d \in Callers :
        /\ c # d
        /\ Reading(c) /\ Reading(d)
        /\ frame[c].op = "find" /\ frame[d].op = "all"
        /\ len(store) > 0

\* C10: per-operation atomicity: every result returned, and the store
\* whenever no write call is inside it, are those of the one-at-a-time
\* execution that runs the same calls whole, each at the moment it got the
\* lock (between its call and its return, so in each caller's own order);
\* what find and all return is read from a store that a whole number of
\* write calls produced.
Count(q, x) == Cardinality({i \in 1..Len(q) : q[i] = x})
SameItems(q, r) ==
    /\ Len(q) = Len(r)
    /\ \A x \in Range(q) \cup Range(r) : Count(q, x) = Count(r, x)
SameResult(f) ==
    IF f.op = "all" THEN SameItems(f.ret.items, f.expect.items)
    ELSE f.ret = f.expect

C10_Atomic ==
    /\ \A c \in Callers : pc[c] = "done" => SameResult(frame[c])
    /\ (\A c \in Callers : ~Writing(c)) => store = lin

\* an update has succeeded on a store of two items while the other caller
\* waits for the lock
C10_Witness ==
    \E c, d \in Callers :
        /\ c # d
        /\ pc[c] = "done" /\ frame[c].op = "update" /\ frame[c].ret.ok
        /\ pc[d] = "called"
        /\ len(store) = 2

\* C11: cloning a handle shares the store: every two live handles (all are
\* clones of the one new() returned) see the same content through find and
\* all, and what a create, update or delete through one handle leaves is
\* what find and all through every other handle return.
SameReads(s, t) ==
    /\ \A id \in Ids : find(s, id).ret = find(t, id).ret
    /\ DOMAIN s = DOMAIN t
    /\ \A order \in KeyOrders(s) : all(s, order).ret = all(t, order).ret

Live == {h \in Handles : handles[h].live}

C11_CloneShares ==
    /\ \A h, g \in Live : SameReads(View(h), View(g))
    /\ writer.h # 0 => \A g \in Live : SameReads(View(g), writer.left)

\* an item created through one clone and completed through another is what
\* the original handle sees
C11_Witness ==
    /\ Live = Handles
    /\ writer.h = NHandles
    /\ writer.op = "update"
    /\ \E k \in DOMAIN View(1) : View(1)[k].completed
    /\ len(View(1)) > 1

\* C12: the only error is NotFound(id): update and delete return it, with
\* the id they were given, exactly when that id is not stored; create, find
\* and all never return an error, and find of a missing id returns None.
IsError(r) == "ok" \in DOMAIN r /\ ~r.ok

\* a step of All: the only steps that leave a result of all in last
AllReturns == last'.op = "all"

C12_OnlyNotFound ==
    [][ /\ (\/ last'.op = "update" /\ Update(last'.id, last'.payload)
            \/ last'.op = "delete" /\ Delete(last'.id))
              => /\ IsError(last'.ret) <=> last'.id \notin DOMAIN store
                 /\ IsError(last'.ret)
                      => last'.ret = Err(NotFound(last'.id))
        /\ (last'.op = "create" /\ Create(last'.payload))
              => ~IsError(last'.ret)
        /\ AllReturns => ~IsError(last'.ret)
        /\ (last'.op = "find" /\ Find(last'.id))
              => /\ ~IsError(last'.ret)
                 /\ last'.id \notin DOMAIN store => last'.ret = None ]_vars

\* a find of an id that is not stored has returned None, next to stored
\* items
C12_Witness ==
    /\ last.op = "find"
    /\ last.id \notin DOMAIN store
    /\ last.ret = None
    /\ len(store) > 0

\* C13: every operation runs to completion: whenever a call is in progress
\* some caller can take a step other than starting a call (no deadlock),
\* and under fair scheduling every call that was started returns, its guard
\* released.
C13_Pending == {c \in Callers : pc[c] # "idle"}

C13_RunsToCompletion ==
    /\ [](C13_Pending # {} => \E c \in Callers : ENABLED (Acquire(c) \/ Body(c)))
    /\ \A c \in Callers :
         (pc[c] = "called") ~> (pc[c] = "idle" /\ c \notin Holders)

\* a write call waits for the lock while another write call is inside
C13_Witness ==
    \E c, d \in Callers :
        /\ c # d
        /\ pc[c] = "called" /\ frame[c].op \in WriteOps
        /\ Writing(d) /\ pc[d] = "stepped"

\* C14: find and all are read-only: find(id), for a stored or a missing id,
\* and all() leave the store exactly as it was, and changing a Todo they
\* returned does not change the store.
C14_ReadOnly ==
    [][ (\/ last'.op = "find" /\ Find(last'.id)
         \/ AllReturns
         \/ last'.op = "change" /\ ChangeReturned)
            => store' = store ]_vars

\* the caller has changed a Todo it was returned, and the stored item with
\* that id is not the changed one
C14_Witness ==
    /\ last.op = "change"
    /\ last.id \in DOMAIN store
    /\ store[last.id] # last.ret.val
    /\ len(store) > 1

\* C15: create returns the Todo whose id is the number of stored items plus
\* one: the first create on an empty repository returns id 1, and after ids
\* 1, 2 and 3 were returned and the item with id 2 was deleted, the next
\* create returns id 3.
C15_CreateReturnsLenPlusOne ==
    [][ (last'.op = "create" /\ Create(last'.payload)) =>
          /\ last'.ret.id = len(store) + 1
          /\ store = EmptyStore => last'.ret.id = 1
          /\ (issued = {1, 2, 3} /\ DOMAIN store = {1, 3})
                => last'.ret.id = 3 ]_vars

\* ids 1, 2 and 3 were returned, the item with id 2 was deleted, and the
\* create that followed returned id 3
C15_Witness ==
    /\ last.op = "create"
    /\ last.ret.id = 3
    /\ issued = {1, 2, 3}
    /\ deletes = "succeeded"
    /\ DOMAIN store = {1, 3}

\* C16: no lost update: when two concurrent update calls on the same stored
\* id, one giving only a text and the other only a completed flag, have
\* both returned, the stored item has the text of the first and the
\* completed flag of the second, in whatever order the calls ran.
C16_NoLostUpdate ==
    \A c, d \in Racers :
        ( /\ c # d
          /\ pc[c] = "returned" /\ pc[d] = "returned"
          /\ frame[c].id = frame[d].id
          /\ frame[c].id \in DOMAIN store
          /\ frame[c].payload.text.some /\ ~frame[c].payload.completed.some
          /\ ~frame[d].payload.text.some /\ frame[d].payload.completed.some )
        => /\ store[frame[c].id].id = frame[c].id
           /\ store[frame[c].id].text = frame[c].payload.text.val
           /\ store[frame[c].id].completed = frame[d].payload.completed.val

\* both calls returned Ok; the text-only update ran first and returned the
\* item with the old completed flag, which the other update then changed
C16_Witness ==
    \E c, d \in Racers :
        /\ c # d
        /\ pc[c] = "returned" /\ pc[d] = "returned"
        /\ frame[c].id = frame[d].id
        /\ frame[c].ret.ok /\ frame[d].ret.ok
        /\ frame[c].payload.text.some /\ ~frame[c].payload.completed.some
        /\ ~frame[d].payload.text.some /\ frame[d].payload.completed.some
        /\ frame[c].ret.val.completed # frame[d].payload.completed.val
        /\ frame[d].ret.val.text = frame[c].payload.text.val

\* C17: every stored item is stored under the key that equals its own id
\* field, so find(id) never returns an item whose id differs from the id
\* asked for.
C17_KeyIsId ==
    /\ \A k \in DOMAIN store : store[k].id = k
    /\ (last.op = "find" /\ last.ret.some) => last.ret.val.id = last.id

\* find returned an item that an update had written, in a repository that
\* has seen a delete and holds more than one item
C17_Witness ==
    /\ last.op = "find"
    /\ last.ret.some
    /\ last.ret.val.completed
    /\ deletes = "succeeded"
    /\ len(store) > 1

\* C18: a successful update or delete affects only the item with the given
\* id: every other stored item keeps its id, text and completed; update
\* leaves the set of stored ids as it was, and delete removes exactly the
\* one id.
C18_OnlyThatId ==
    [][ /\ (last'.op = "update" /\ Update(last'.id, last'.payload)
                /\ last'.ret.ok)
            => /\ DOMAIN store' = DOMAIN store
               /\ \A k \in DOMAIN store \ {last'.id} : store'[k] = store[k]
        /\ (last'.op = "delete" /\ Delete(last'.id) /\ last'.ret.ok)
            => /\ last'.id \in DOMAIN store
               /\ DOMAIN store' = DOMAIN store \ {last'.id}
               /\ \A k \in DOMAIN store' : store'[k] = store[k] ]_vars

\* a delete succeeded and left two items, one of them written by an update
C18_Witness ==
    /\ last.op = "delete"
    /\ last.ret.ok
    /\ len(store) = 2
    /\ \E k \in DOMAIN store : store[k].completed

\* C19: while no delete has ever succeeded, also with concurrent callers,
\* the stored ids are exactly 1..N, N being the number of creates that have
\* completed, and any two creates return different ids: the ids are 1..n
\* for the n stored items, a create that completes returns n + 1 and makes
\* the ids 1..n+1, and no other step changes the ids.
C19_IdsContiguous ==
    [][ /\ DOMAIN store = 1..len(store)
        /\ \A c \in Callers :
             IF pc[c] = "stepped" /\ frame[c].op = "create" /\ CreateInsert(c)
             THEN /\ frame'[c].ret.id = len(store) + 1
                  /\ DOMAIN store' = 1..(len(store) + 1)
             ELSE pc'[c] # pc[c] => DOMAIN store' = DOMAIN store ]_vars

\* two creates have completed; the second has its result, id 2, and still
\* holds the lock another writer waits for
C19_Witness ==
    /\ len(store) = 2
    /\ \E c, d \in Callers :
         /\ c # d
         /\ pc[c] = "done" /\ frame[c].op = "create" /\ frame[c].ret.id = 2
         /\ pc[d] = "called" /\ frame[d].op \in WriteOps

====
